---- MODULE Spec2Model ----
(***************************************************************************)
(* Status resolution of the sortme command-line client: the REST lookup    *)
(* over guessed endpoints (tryRESTStatusViaIP / tryRESTStatus), the        *)
(* WebSocket fallback (getStatusViaWebSocket), the message normalizer      *)
(* (parseWebSocketMessage, convertResultToStatus, parseStatusMessage), the *)
(* verdict classifier (isFinalStatus), the submission listing              *)
(* (GetContestSubmissions, tryGetSubmissions) and the auth and logout      *)
(* commands with the configuration file.                                   *)
(***************************************************************************)
EXTENDS Integers, Sequences, FiniteSets, TLC

(***************************************************************************)
(* Bounds of the model.                                                    *)
(***************************************************************************)
\* at most this many frames are delivered on one WebSocket connection
MaxFrames == 3
\* granularity with which the clock advances while a read is blocked
TimeStep == 15
\* number of tasks of the contest whose submissions are listed
NumTasks == 2
\* largest value of the --limit flag
MaxLimit == 2

(***************************************************************************)
(* Program constants.                                                      *)
(***************************************************************************)
\* conn.SetReadDeadline(time.Now().Add(60 * time.Second))
InitialDeadline == 60
\* conn.SetReadDeadline(time.Now().Add(30 * time.Second))
NextDeadline == 30
\* http.StatusOK
StatusOK == 200
\* if resp.StatusCode == 404
StatusNotFound == 404
\* if resp.StatusCode == 429
StatusTooManyRequests == 429
\* the number of entries of endpoints in getArchiveContestSubmissions
NumArchiveEndpoints == 3

(***************************************************************************)
(* JSON values.  A scalar is a record [t, s, n]: t is the JSON type as     *)
(* encoding/json sees it ("absent" when the key is missing), s the string  *)
(* value, n the number (an "int" is an integer literal with value n, a     *)
(* "float" is a literal with a fraction or exponent, of value n/10).       *)
(***************************************************************************)
Absent == [t |-> "absent", s |-> "", n |-> 0]
JNull == [t |-> "null", s |-> "", n |-> 0]
JStr(x) == [t |-> "str", s |-> x, n |-> 0]
JInt(k) == [t |-> "int", s |-> "", n |-> k]
JFloat(k10) == [t |-> "float", s |-> "", n |-> k10]
JBool(b) == [t |-> IF b THEN "true" ELSE "false", s |-> "", n |-> 0]
JArr == [t |-> "arr", s |-> "", n |-> 0]
JObj == [t |-> "obj", s |-> "", n |-> 0]

\* the keys of the wire shapes the client decodes
TopKeys ==
    {"compiled", "compiler_log", "shown_verdict", "shown_verdict_text",
     "total_points", "subtasks", "type", "data", "status", "result",
     "score", "time", "memory", "id"}
DataKeys == {"id", "status", "result", "score", "time", "memory"}

\* a JSON document: syn is "invalid" (not JSON), "null", "object" or "other"
\* (array, string, number, boolean); top holds the members of an object,
\* sub the worst_time member of each element of "subtasks", data the
\* members of the object under "data"
Obj(members, subtasks, dataMembers) ==
    [syn |-> "object",
     top |-> [k \in TopKeys |-> IF k \in DOMAIN members THEN members[k] ELSE Absent],
     sub |-> subtasks,
     data |-> [k \in DataKeys |-> IF k \in DOMAIN dataMembers THEN dataMembers[k] ELSE Absent]]
NoMembers == [k \in {} |-> Absent]
NonObject(kind) ==
    [syn |-> kind,
     top |-> [k \in TopKeys |-> Absent],
     sub |-> <<>>,
     data |-> [k \in DataKeys |-> Absent]]

(***************************************************************************)
(* encoding/json: json.Unmarshal into a struct.  A missing key and a JSON  *)
(* null leave the field at its zero value; a value of the wrong JSON type  *)
(* makes Unmarshal return an error; keys the struct does not have are      *)
(* ignored.                                                                *)
(***************************************************************************)
FieldOK(jv, ty) ==
    \/ jv.t \in {"absent", "null"}
    \/ ty = "any"
    \/ ty = "string" /\ jv.t = "str"
    \/ ty = "int" /\ jv.t = "int"
    \/ ty = "bool" /\ jv.t \in {"true", "false"}
    \/ ty = "array" /\ jv.t = "arr"

UnmarshalOK(doc, schema) ==
    \/ doc.syn = "null"
    \/ /\ doc.syn = "object"
       /\ \A k \in DOMAIN schema : FieldOK(doc.top[k], schema[k])
       /\ ("subtasks" \in DOMAIN schema /\ doc.top["subtasks"].t = "arr")
             => \A i \in 1..Len(doc.sub) : FieldOK(doc.sub[i], "int")

StrField(jv) == IF jv.t = "str" THEN jv.s ELSE ""
IntField(jv) == IF jv.t = "int" THEN jv.n ELSE 0
BoolField(jv) == jv.t = "true"

\* type SubmissionResult struct
SubmissionResultSchema ==
    [compiled |-> "bool", compiler_log |-> "string", shown_verdict |-> "int",
     shown_verdict_text |-> "string", total_points |-> "int", subtasks |-> "array"]
\* type WSMessage struct
WSMessageSchema ==
    [type |-> "string", data |-> "any", status |-> "string", result |-> "string",
     score |-> "int", time |-> "string", memory |-> "string"]
\* type SubmissionStatus struct
SubmissionStatusSchema ==
    [id |-> "string", status |-> "string", result |-> "string",
     score |-> "int", time |-> "string", memory |-> "string"]

\* the zero value of SubmissionStatus
ZeroStatus ==
    [ID |-> "", Status |-> "", Result |-> "", Score |-> 0, Time |-> "", Memory |-> ""]

(***************************************************************************)
(* fmt.Sprintf("%v", x) of a value decoded into interface{} (every JSON    *)
(* number is a float64 there), and int(x) of a float64.                    *)
(***************************************************************************)
Abs(n) == IF n < 0 THEN -n ELSE n
Trunc10(n) == IF n < 0 THEN -(Abs(n) \div 10) ELSE n \div 10
FmtFloat10(n) ==
    (IF n < 0 THEN "-" ELSE "") \o ToString(Abs(n) \div 10)
        \o (IF Abs(n) % 10 = 0 THEN "" ELSE "." \o ToString(Abs(n) % 10))
Sprintv(jv) ==
    CASE jv.t = "str" -> jv.s
      [] jv.t = "int" -> ToString(jv.n)
      [] jv.t = "float" -> FmtFloat10(jv.n)
      [] jv.t = "true" -> "true"
      [] jv.t = "false" -> "false"
      [] jv.t = "null" -> "<nil>"
      [] jv.t = "arr" -> "[]"
      [] OTHER -> "map[]"

(***************************************************************************)
(* Verdict classifier.                                                     *)
(***************************************************************************)
\* variant: a partial solution counts as final
finalStatusesWithPartial ==
    {"accepted", "wrong_answer", "time_limit_exceeded",
     "memory_limit_exceeded", "compilation_error", "runtime_error",
     "AC", "WA", "TLE", "MLE", "CE", "RE", "partial"}

\* variant: the short codes are missing
finalStatusesLongOnly ==
    {"accepted", "wrong_answer", "time_limit_exceeded",
     "memory_limit_exceeded", "compilation_error", "runtime_error"}

finalStatuses ==
    {"accepted", "wrong_answer", "time_limit_exceeded",
     "memory_limit_exceeded", "compilation_error", "runtime_error",
     "AC", "WA", "TLE", "MLE", "CE", "RE"}

isFinalStatus(status) == status \in finalStatuses

(***************************************************************************)
(* Result normalizer.                                                      *)
(***************************************************************************)
\* variant: the points are looked at before the compiled flag
convertResultToStatusPointsFirst(doc) ==
    LET compiled == BoolField(doc.top["compiled"])
        points == IntField(doc.top["total_points"])
        hasSub == doc.syn = "object" /\ doc.top["subtasks"].t = "arr" /\ Len(doc.sub) > 0
    IN [ID |-> "current",
        Status |-> IF points = 100 THEN "accepted"
                   ELSE IF ~compiled THEN "compilation_error"
                   ELSE IF points > 0 THEN "partial"
                   ELSE "wrong_answer",
        Result |-> StrField(doc.top["shown_verdict_text"]),
        Score |-> points,
        Time |-> IF hasSub THEN ToString(IntField(doc.sub[1])) \o " ms" ELSE "",
        Memory |-> ""]

convertResultToStatus(doc) ==
    LET compiled == BoolField(doc.top["compiled"])
        points == IntField(doc.top["total_points"])
        hasSub == doc.syn = "object" /\ doc.top["subtasks"].t = "arr" /\ Len(doc.sub) > 0
    IN [ID |-> "current",
        Status |-> IF ~compiled THEN "compilation_error"
                   ELSE IF points = 100 THEN "accepted"
                   ELSE IF points > 0 THEN "partial"
                   ELSE "wrong_answer",
        Result |-> StrField(doc.top["shown_verdict_text"]),
        Score |-> points,
        Time |-> IF hasSub THEN ToString(IntField(doc.sub[1])) \o " ms" ELSE "",
        Memory |-> ""]

parseStatusMessage(doc) ==
    LET hasData == doc.syn = "object" /\ doc.top["data"].t = "obj"
        d == doc.data
        over(k, top) == IF hasData /\ d[k].t # "absent" THEN Sprintv(d[k]) ELSE top
        id == over("id", "")
    IN [ID |-> IF id = "" THEN "unknown" ELSE id,
        Status |-> over("status", StrField(doc.top["status"])),
        Result |-> over("result", StrField(doc.top["result"])),
        Score |-> IF hasData /\ d["score"].t = "int" THEN d["score"].n
                  ELSE IF hasData /\ d["score"].t = "float" THEN Trunc10(d["score"].n)
                  ELSE IntField(doc.top["score"]),
        Time |-> over("time", StrField(doc.top["time"])),
        Memory |-> over("memory", StrField(doc.top["memory"]))]

\* <<>> is the error "неизвестный формат сообщения", <<s>> the status s
parseWebSocketMessage(doc) ==
    IF UnmarshalOK(doc, SubmissionResultSchema) THEN <<convertResultToStatus(doc)>>
    ELSE IF UnmarshalOK(doc, WSMessageSchema) THEN <<parseStatusMessage(doc)>>
    ELSE <<>>

(***************************************************************************)
(* REST replies.  tr is the outcome of client.Do ("err": the transport     *)
(* failed), code the HTTP status, body the document of the response body.  *)
(***************************************************************************)
ReplyNames ==
    {"neterr", "404", "429", "500", "200blob", "200badType",
     "200full", "200noid", "200null", "200neg"}

Reply(name) ==
    CASE name = "neterr" -> [tr |-> "err", code |-> 0, body |-> NonObject("invalid")]
      [] name = "404" -> [tr |-> "ok", code |-> 404, body |-> NonObject("invalid")]
      [] name = "429" -> [tr |-> "ok", code |-> 429, body |-> NonObject("invalid")]
      [] name = "500" -> [tr |-> "ok", code |-> 500, body |-> NonObject("invalid")]
      [] name = "200blob" -> [tr |-> "ok", code |-> 200, body |-> NonObject("invalid")]
      [] name = "200badType" ->
            [tr |-> "ok", code |-> 200,
             body |-> Obj([id |-> JStr("42"), score |-> JStr("50")], <<>>, NoMembers)]
      [] name = "200full" ->
            [tr |-> "ok", code |-> 200,
             body |-> Obj([id |-> JStr("42"), status |-> JStr("testing"),
                           score |-> JInt(50)], <<>>, NoMembers)]
      [] name = "200noid" ->
            [tr |-> "ok", code |-> 200,
             body |-> Obj([status |-> JStr("accepted"), score |-> JInt(100)],
                          <<>>, NoMembers)]
      [] name = "200neg" ->
            [tr |-> "ok", code |-> 200,
             body |-> Obj([id |-> JStr("42"), status |-> JStr("testing"),
                           score |-> JInt(-5)], <<>>, NoMembers)]
      [] OTHER -> [tr |-> "ok", code |-> 200, body |-> NonObject("null")]

\* json.Unmarshal(body, &status) on a zero SubmissionStatus
DecodeStatus(doc) ==
    [ID |-> StrField(doc.top["id"]),
     Status |-> StrField(doc.top["status"]),
     Result |-> StrField(doc.top["result"]),
     Score |-> IntField(doc.top["score"]),
     Time |-> StrField(doc.top["time"]),
     Memory |-> StrField(doc.top["memory"])]

\* tryGetStatus: <<>> on success, otherwise the error
tryGetStatusErr(r) ==
    IF r.tr = "err" THEN <<"transport">>
    ELSE IF r.code # StatusOK THEN <<"status " \o ToString(r.code)>>
    ELSE IF ~UnmarshalOK(r.body, SubmissionStatusSchema) THEN <<"unmarshal">>
    ELSE <<>>

\* variant: a reply counts only when its status is already final
ViaIPSuccessFinalOnly(r) ==
    /\ r.tr = "ok" /\ r.code = StatusOK /\ UnmarshalOK(r.body, SubmissionStatusSchema)
    /\ isFinalStatus(StrField(r.body.top["status"]))

\* the test of the loop body of tryRESTStatusViaIP
ViaIPSuccess(r) ==
    r.tr = "ok" /\ r.code = StatusOK /\ UnmarshalOK(r.body, SubmissionStatusSchema)

\* variant: two candidates have changed places
EndpointsSwapped(rev) ==
    IF rev = "viaIP"
    THEN <<"/submissions/", "/submission/", "/api/submission/">>
    ELSE <<"/submissions/", "/submission/", "/api/submission/", "/api/submissions/">>

\* the candidate lists of the two revisions of the REST lookup
Endpoints(rev) ==
    IF rev = "viaIP"
    THEN <<"/submission/", "/submissions/", "/api/submission/">>
    ELSE <<"/submission/", "/submissions/", "/api/submission/", "/api/submissions/">>

(***************************************************************************)
(* WebSocket frames.  ft is the message type ReadMessage reports.          *)
(***************************************************************************)
FrameNames ==
    {"blob", "envTesting", "envAccepted", "compiled100", "compiledPartial",
     "wsTesting", "wsData", "badTypes", "binary"}

Frame(name) ==
    CASE name = "blob" -> [ft |-> "text", doc |-> NonObject("invalid")]
      [] name = "envTesting" ->
            [ft |-> "text",
             doc |-> Obj([status |-> JStr("testing")], <<>>, NoMembers)]
      [] name = "envAccepted" ->
            [ft |-> "text",
             doc |-> Obj([status |-> JStr("accepted"), score |-> JInt(100)],
                         <<>>, NoMembers)]
      [] name = "compiled100" ->
            [ft |-> "text",
             doc |-> Obj([compiled |-> JBool(TRUE), shown_verdict_text |-> JStr("OK"),
                          total_points |-> JInt(100), subtasks |-> JArr],
                         <<JInt(12)>>, NoMembers)]
      [] name = "compiledPartial" ->
            [ft |-> "text",
             doc |-> Obj([compiled |-> JBool(TRUE), total_points |-> JInt(50)],
                         <<>>, NoMembers)]
      [] name = "wsTesting" ->
            [ft |-> "text",
             doc |-> Obj([total_points |-> JStr("-"), status |-> JStr("testing"),
                          score |-> JInt(10)], <<>>, NoMembers)]
      [] name = "wsData" ->
            [ft |-> "text",
             doc |-> Obj([compiled |-> JStr("yes"), status |-> JStr("running"),
                          data |-> JObj], <<>>,
                         [id |-> JInt(7), status |-> JStr("AC"),
                          score |-> JFloat(870), time |-> JInt(15)])]
      [] name = "badTypes" ->
            [ft |-> "text",
             doc |-> Obj([compiled |-> JStr("x"), score |-> JStr("y")],
                         <<>>, NoMembers)]
      [] OTHER ->
            [ft |-> "binary",
             doc |-> Obj([status |-> JStr("accepted")], <<>>, NoMembers)]

(***************************************************************************)
(* State.                                                                  *)
(***************************************************************************)
VARIABLES
    op,            \* the API operation this invocation calls
    revision,      \* which revision of the REST lookup GetSubmissionStatus calls
    config,        \* a.config: SessionToken, UserID
    submissionID,  \* the argument of GetSubmissionStatus
    pc,            \* state of the resolution
    cand,          \* index of the next REST candidate
    lastError,     \* tryRESTStatus: lastError (<<>> is nil)
    restErr,       \* GetSubmissionStatus: err of the REST lookup (<<>> is nil)
    resp,          \* name of the reply to the request just issued
    requests,      \* endpoints requested so far, in order
    conn,          \* the WebSocket connection: "none", "open", "closed"
    dials,         \* number of calls of dialer.Dial
    now,           \* the clock
    deadline,      \* the read deadline of conn
    lastStatus,    \* getStatusViaWebSocket: lastStatus (<<>> is nil)
    frames,        \* names of the frames ReadMessage has returned, in order
    lastRead,      \* what the last call of ReadMessage returned
    ret,           \* what the operation returned
    normAt,        \* when the last non-final status was normalized (-1: never)
    saved,         \* the configuration file: session_token, user_id
    reported,      \* what the last auth or logout command of the process printed
    ndoc,          \* the document handed to parseWebSocketMessage
    nout,          \* what parseWebSocketMessage returned for ndoc
    ndone,         \* parseWebSocketMessage has been applied to ndoc
    ntoken,        \* the status handed to isFinalStatus
    nfinal,        \* what isFinalStatus returned for ntoken
    cdone,         \* isFinalStatus has been applied to ntoken
    limit,         \* the limit argument of GetContestSubmissions
    task,          \* index of the next archive endpoint or task
    allSubmissions,\* the ids of allSubmissions, in order
    taskResult,    \* what the last call of tryGetSubmissions returned
    lreplies,      \* names of the replies to the task requests, in order
    aresp,         \* name of the reply of the last archive endpoint
    result         \* the ids of the list GetContestSubmissions returned

\* the variables of the normalizer and the classifier taken alone
nvars == <<ndoc, nout, ndone, ntoken, nfinal, cdone>>

\* the variables of the submission listing
lvars == <<limit, task, allSubmissions, taskResult, lreplies, aresp, result>>

vars ==
    <<op, revision, config, submissionID, pc, cand, lastError, restErr, resp,
      requests, conn, dials, now, deadline, lastStatus, frames, lastRead, ret,
      normAt, saved, reported, nvars, lvars>>

\* the operations of APIClient that need a credential
Operations ==
    {"GetSubmissionStatus", "SubmitSolution", "GetContests", "GetContestInfo",
     "GetContestSubmissions", "GetSubmissions", "GetRecentSubmissions",
     "IsTaskSolved"}

NoRet == [kind |-> "none", status |-> <<>>, err |-> ""]
RetStatus(s) == [kind |-> "status", status |-> <<s>>, err |-> ""]
RetError(e) == [kind |-> "error", status |-> <<>>, err |-> e]
\* a result that is not a SubmissionStatus (a list, a contest, a response)
RetValue == [kind |-> "value", status |-> <<>>, err |-> ""]

\* variant: only the session token is looked at
IsAuthenticatedTokenOnly == config.SessionToken # ""

IsAuthenticated == config.SessionToken # "" /\ config.UserID # ""

Min(a, b) == IF a < b THEN a ELSE b

\* nothing has been handed to the normalizer or the classifier
NormIdle ==
    /\ ndoc = NonObject("null")
    /\ nout = <<>>
    /\ ndone = FALSE
    /\ ntoken = ""
    /\ nfinal = FALSE
    /\ cdone = FALSE

\* nothing has been listed
ListIdle ==
    /\ task = 1
    /\ allSubmissions = <<>>
    /\ taskResult = [subs |-> <<>>, err |-> <<>>]
    /\ lreplies = <<>>
    /\ aresp = "none"
    /\ result = <<>>

Init ==
    /\ NormIdle
    /\ ListIdle
    /\ op \in Operations
    /\ limit \in (IF op = "GetContestSubmissions" THEN 0..MaxLimit ELSE {0})
    /\ restErr = <<>>
    /\ revision \in {"viaIP", "rest"}
    /\ config \in [SessionToken : {"", "tok"}, UserID : {"", "u1"}]
    /\ saved = config
    /\ reported = "none"
    /\ submissionID = "42"
    /\ pc = "START"
    /\ cand = 1
    /\ lastError = <<>>
    /\ resp = "none"
    /\ requests = <<>>
    /\ conn = "none"
    /\ dials = 0
    /\ now = 0
    /\ deadline = 0
    /\ lastStatus = <<>>
    /\ frames = <<>>
    /\ lastRead = "none"
    /\ ret = NoRet
    /\ normAt = -1

(***************************************************************************)
(* GetSubmissionStatus: the authentication check.                          *)
(***************************************************************************)
GetSubmissionStatus ==
    /\ pc = "START"
    /\ op = "GetSubmissionStatus"
    /\ IF ~IsAuthenticated
       THEN /\ pc' = "FAILED"
            /\ ret' = RetError("not authenticated")
       ELSE /\ pc' = "RESTAttempt"
            /\ ret' = ret
    /\ UNCHANGED <<nvars, lvars, normAt, saved, reported, op, revision, config, submissionID, cand, lastError, restErr, resp, requests,
                   conn, dials, now, deadline, lastStatus, frames, lastRead>>

\* variant: the error of the last request is passed on
ViaIPErrorLast == <<"status 404">>

\* return nil, fmt.Errorf("REST статус недоступен")
ViaIPError == <<"REST status unavailable">>

\* variant: the first error is kept
RESTErrorFirst(last, err) == IF last = <<>> THEN err ELSE last

\* lastError = err in the last iteration, then return nil, lastError
RESTError(last, err) == err

(***************************************************************************)
(* The other operations: the authentication check, then the body, of which *)
(* only the first HTTP request is kept.                                    *)
(***************************************************************************)
ApiCall ==
    /\ pc = "START"
    /\ op # "GetSubmissionStatus"
    /\ IF ~IsAuthenticated
       THEN /\ pc' = "FAILED"
            /\ ret' = RetError("not authenticated")
       ELSE /\ pc' = "Running"
            /\ ret' = ret
    /\ UNCHANGED <<nvars, lvars, normAt, saved, reported, op, revision, config, submissionID, cand, lastError, restErr, resp,
                   requests, conn, dials, now, deadline, lastStatus, frames, lastRead>>

\* outcome "badarg": an argument is rejected before any request (strconv.Atoi);
\* "ok" and "fail": a request is issued and succeeds or fails
ApiRun(outcome) ==
    /\ pc = "Running"
    /\ op # "GetContestSubmissions"
    /\ requests' = IF outcome = "badarg" THEN requests ELSE Append(requests, op)
    /\ ret' = IF outcome = "ok" THEN RetValue ELSE RetError("operation failed")
    /\ pc' = IF outcome = "ok" THEN "DONE" ELSE "FAILED"
    /\ UNCHANGED <<nvars, lvars, normAt, saved, reported, op, revision, config, submissionID, cand, lastError, restErr, resp,
                   conn, dials, now, deadline, lastStatus, frames, lastRead>>

(***************************************************************************)
(* GetContestSubmissions.  A submission is its id.  A reply to a task      *)
(* request is [tr, code, decodes, subs]: decodes says whether the body     *)
(* unmarshals into {count, submissions}, subs is its submissions.          *)
(***************************************************************************)
ListReplyNames == {"neterr", "404", "429", "500", "200bad", "200list"}

ListReply(name, t) ==
    CASE name = "neterr" -> [tr |-> "err", code |-> 0, decodes |-> FALSE, subs |-> <<>>]
      [] name = "404" ->
            [tr |-> "ok", code |-> StatusNotFound, decodes |-> FALSE, subs |-> <<>>]
      [] name = "429" ->
            [tr |-> "ok", code |-> StatusTooManyRequests, decodes |-> FALSE, subs |-> <<>>]
      [] name = "500" -> [tr |-> "ok", code |-> 500, decodes |-> FALSE, subs |-> <<>>]
      [] name = "200bad" -> [tr |-> "ok", code |-> StatusOK, decodes |-> FALSE, subs |-> <<>>]
      [] OTHER -> [tr |-> "ok", code |-> StatusOK, decodes |-> TRUE, subs |-> <<t, t + 10>>]

\* replies of the archive endpoints: "200empty" has a body that
\* parseArchiveSubmissions rejects or in which it finds no submission
ArchiveReplyNames == {"500", "200empty", "200list"}

ArchiveReply(name) ==
    CASE name = "500" -> [tr |-> "ok", code |-> 500, decodes |-> FALSE, subs |-> <<>>]
      [] name = "200empty" -> [tr |-> "ok", code |-> StatusOK, decodes |-> TRUE, subs |-> <<>>]
      [] OTHER -> [tr |-> "ok", code |-> StatusOK, decodes |-> TRUE, subs |-> <<32, 39, 37>>]

\* sort.Slice(s, func(i, j int) bool { return s[i].ID > s[j].ID })
RECURSIVE SortDesc(_)
SortDesc(s) ==
    IF s = <<>> THEN <<>>
    ELSE LET i == CHOOSE i \in 1..Len(s) : \A j \in 1..Len(s) : s[j] <= s[i]
         IN <<s[i]>> \o SortDesc(SubSeq(s, 1, i - 1) \o SubSeq(s, i + 1, Len(s)))

\* if limit > 0 && limit < len(s) { return s[:limit] }; return s
ApplyLimit(s, lim) ==
    IF lim > 0 /\ lim < Len(s) THEN SubSeq(s, 1, lim) ELSE s

\* variant: 404 is an error like every other status
tryGetSubmissionsNotFoundError(r, lim) ==
    IF r.tr = "err" THEN [subs |-> <<>>, err |-> <<"transport">>]
    ELSE IF r.code # StatusOK
    THEN IF r.code = StatusTooManyRequests
         THEN [subs |-> <<>>, err |-> <<"rate limit">>]
         ELSE [subs |-> <<>>, err |-> <<"HTTP " \o ToString(r.code)>>]
    ELSE IF ~r.decodes THEN [subs |-> <<>>, err |-> <<"unmarshal">>]
    ELSE [subs |-> ApplyLimit(SortDesc(r.subs), lim), err |-> <<>>]

\* variant: 429 is not told apart from the other statuses
tryGetSubmissionsNoRateLimit(r, lim) ==
    IF r.tr = "err" THEN [subs |-> <<>>, err |-> <<"transport">>]
    ELSE IF r.code # StatusOK
    THEN IF r.code = StatusNotFound
         THEN [subs |-> <<>>, err |-> <<>>]
         ELSE [subs |-> <<>>, err |-> <<"HTTP " \o ToString(r.code)>>]
    ELSE IF ~r.decodes THEN [subs |-> <<>>, err |-> <<"unmarshal">>]
    ELSE [subs |-> ApplyLimit(SortDesc(r.subs), lim), err |-> <<>>]

\* tryGetSubmissions: the list and the error (<<>> is nil) it returns
tryGetSubmissions(r, lim) ==
    IF r.tr = "err" THEN [subs |-> <<>>, err |-> <<"transport">>]
    ELSE IF r.code # StatusOK
    THEN IF r.code = StatusNotFound
         THEN [subs |-> <<>>, err |-> <<>>]
         ELSE IF r.code = StatusTooManyRequests
         THEN [subs |-> <<>>, err |-> <<"rate limit">>]
         ELSE [subs |-> <<>>, err |-> <<"HTTP " \o ToString(r.code)>>]
    ELSE IF ~r.decodes THEN [subs |-> <<>>, err |-> <<"unmarshal">>]
    ELSE [subs |-> ApplyLimit(SortDesc(r.subs), lim), err |-> <<>>]

\* GetContestSubmissions: the call of GetContestInfo.  "badid": strconv.Atoi
\* rejects the contest id; "unavailable": both endpoints failed; otherwise
\* the Status of the contest is "archive" or something else
GetContestInfo(outcome) ==
    /\ pc = "Running"
    /\ op = "GetContestSubmissions"
    /\ requests' = IF outcome = "badid" THEN requests ELSE Append(requests, "contestInfo")
    /\ IF outcome \in {"badid", "unavailable"}
       THEN pc' = "FAILED" /\ ret' = RetError("contest info unavailable")
       ELSE pc' = (IF outcome = "archive" THEN "Archive" ELSE "Tasks") /\ ret' = ret
    /\ UNCHANGED <<nvars, lvars, normAt, saved, reported, op, revision, config, submissionID, cand, lastError,
                   restErr, resp, conn, dials, now, deadline, lastStatus, frames, lastRead>>

\* getArchiveContestSubmissions: one iteration of the loop over endpoints;
\* after the last one getSubmissionsViaTasks takes over
getArchiveContestSubmissions(name) ==
    /\ pc = "Archive"
    /\ requests' = Append(requests, "archive")
    /\ aresp' = name
    /\ LET r == ArchiveReply(name)
       IN IF r.code = StatusOK /\ r.decodes /\ Len(r.subs) > 0
          THEN /\ result' = r.subs
               /\ ret' = RetValue
               /\ pc' = "DONE"
               /\ task' = task
          ELSE /\ result' = result
               /\ ret' = ret
               /\ IF task = NumArchiveEndpoints
                  THEN pc' = "Tasks" /\ task' = 1
                  ELSE pc' = pc /\ task' = task + 1
    /\ UNCHANGED <<nvars, normAt, saved, reported, limit, allSubmissions, taskResult, lreplies, op, revision, config,
                   submissionID, cand, lastError, restErr, resp, conn, dials, now,
                   deadline, lastStatus, frames, lastRead>>

\* GetContestSubmissions / getSubmissionsViaTasks: one iteration of the loop
\* over contestInfo.Tasks; after the last one the sort and the limit
getSubmissionsViaTasks(name) ==
    /\ pc = "Tasks"
    /\ requests' = Append(requests, "task")
    /\ lreplies' = Append(lreplies, name)
    /\ taskResult' = tryGetSubmissions(ListReply(name, task), 0)
    /\ allSubmissions' = IF taskResult'.err # <<>> THEN allSubmissions
                         ELSE allSubmissions \o taskResult'.subs
    /\ IF task = NumTasks
       THEN /\ result' = ApplyLimit(SortDesc(allSubmissions'), limit)
            /\ ret' = RetValue
            /\ pc' = "DONE"
            /\ task' = task
       ELSE /\ task' = task + 1
            /\ UNCHANGED <<result, ret, pc>>
    /\ UNCHANGED <<nvars, normAt, saved, reported, limit, aresp, op, revision, config, submissionID, cand, lastError,
                   restErr, resp, conn, dials, now, deadline, lastStatus, frames, lastRead>>

(***************************************************************************)
(* One iteration of the loop of tryRESTStatusViaIP, and, when the loop     *)
(* ends, the return to GetSubmissionStatus.                                *)
(***************************************************************************)
tryRESTStatusViaIP(name) ==
    /\ pc = "RESTAttempt"
    /\ revision = "viaIP"
    /\ requests' = Append(requests, Endpoints(revision)[cand])
    /\ resp' = name
    /\ IF ViaIPSuccess(Reply(name))
       THEN /\ pc' = "DONE"
            /\ ret' = RetStatus(DecodeStatus(Reply(name).body))
            /\ UNCHANGED <<cand, restErr>>
       ELSE /\ ret' = ret
            /\ IF cand = Len(Endpoints(revision))
               THEN pc' = "StreamConnect" /\ cand' = cand
                    /\ restErr' = ViaIPError
               ELSE pc' = pc /\ cand' = cand + 1 /\ restErr' = restErr
    /\ UNCHANGED <<nvars, lvars, normAt, saved, reported, op, revision, config, submissionID, lastError,
                   conn, dials, now, deadline, lastStatus, frames, lastRead>>

(***************************************************************************)
(* One iteration of the loop of tryRESTStatus (a call of tryGetStatus),    *)
(* and, when the loop ends, the return to GetSubmissionStatus.             *)
(***************************************************************************)
tryRESTStatus(name) ==
    /\ pc = "RESTAttempt"
    /\ revision = "rest"
    /\ requests' = Append(requests, Endpoints(revision)[cand])
    /\ resp' = name
    /\ IF tryGetStatusErr(Reply(name)) = <<>>
       THEN /\ pc' = "DONE"
            /\ ret' = RetStatus(DecodeStatus(Reply(name).body))
            /\ UNCHANGED <<cand, lastError, restErr>>
       ELSE /\ ret' = ret
            /\ IF cand = Len(Endpoints(revision))
               THEN pc' = "StreamConnect" /\ cand' = cand
                    /\ lastError' = <<>>
                    /\ restErr' = RESTError(lastError, tryGetStatusErr(Reply(name)))
               ELSE pc' = pc /\ cand' = cand + 1
                    /\ lastError' = tryGetStatusErr(Reply(name))
                    /\ restErr' = restErr
    /\ UNCHANGED <<nvars, lvars, normAt, saved, reported, op, revision, config, submissionID,
                   conn, dials, now, deadline, lastStatus, frames, lastRead>>

\* variant: a failed dial is retried
DialRetry(ok) ==
    /\ pc = "StreamConnect"
    /\ dials' = dials + 1
    /\ IF ok
       THEN /\ conn' = "open"
            /\ deadline' = now + InitialDeadline
            /\ pc' = "StreamRead"
       ELSE UNCHANGED <<conn, deadline, pc>>
    /\ resp' = "none"
    /\ restErr' = <<>>
    /\ UNCHANGED <<nvars, lvars, normAt, saved, reported, op, revision, config, submissionID, cand, lastError, requests,
                   now, lastStatus, frames, lastRead, ret>>

(***************************************************************************)
(* getStatusViaWebSocket: dialer.Dial and the first SetReadDeadline.       *)
(***************************************************************************)
Dial(ok) ==
    /\ pc = "StreamConnect"
    /\ dials' = dials + 1
    /\ IF ok
       THEN /\ conn' = "open"
            /\ deadline' = now + InitialDeadline
            /\ pc' = "StreamRead"
            /\ ret' = ret
       ELSE /\ conn' = conn
            /\ deadline' = deadline
            /\ pc' = "FAILED"
            /\ ret' = RetError("WebSocket connection failed")
    /\ resp' = "none"
    /\ restErr' = <<>>
    /\ UNCHANGED <<nvars, lvars, normAt, saved, reported, op, revision, config, submissionID, cand, lastError, requests,
                   now, lastStatus, frames, lastRead>>

(***************************************************************************)
(* getStatusViaWebSocket: the pieces of the body of the read loop.         *)
(***************************************************************************)
\* variant: the id the normalizer produced is kept
ForceIDKeep(status, id) == status

\* status.ID = submissionID
ForceID(status, id) == [status EXCEPT !.ID = id]

\* variant: only the first normalized status is remembered
UpdateLastFirstOnly(last, status) == IF last = <<>> THEN <<status>> ELSE last

\* lastStatus = status
UpdateLast(last, status) == <<status>>

\* variant: the nil status of the failed parse is stored before "continue"
onParseErrorReset(last) == <<>>

\* parseWebSocketMessage failed: the error is printed, then "continue"
onParseError(last) == last

\* variant: the loop never leaves on a final status
exitOnFinalNever(status) == FALSE

\* if a.isFinalStatus(status.Status) { return status, nil }
exitOnFinal(status) == isFinalStatus(status.Status)

\* variant: the window after a status is as long as the first one
resetDeadlineInitial(d, t) == t + InitialDeadline

\* variant: the deadline set after the connect is never moved
resetDeadlineKeep(d, t) == d

\* conn.SetReadDeadline(time.Now().Add(30 * time.Second)) at the end of the
\* loop body
resetDeadline(d, t) == t + NextDeadline

\* variant: the deadline is moved before the frame is looked at
skipDeadlineReset(d, t) == t + NextDeadline

\* a frame that is not text, or "continue" after a failed parse: the end of
\* the loop body is not reached
skipDeadline(d, t) == d

\* variant: a timeout is always an error
onTimeoutAlwaysError(last) == RetError("timeout")

\* variant: a timeout without a status returns an empty record
onTimeoutZeroRecord(last) ==
    IF last # <<>> THEN RetStatus(last[1]) ELSE RetStatus(ZeroStatus)

\* ReadMessage returned a net.Error with Timeout()
onTimeout(last) ==
    IF last # <<>> THEN RetStatus(last[1]) ELSE RetError("timeout")

\* variant: a read error falls back to the last status
onReadErrorFallback(last) ==
    IF last # <<>> THEN RetStatus(last[1]) ELSE RetError("WebSocket read error")

\* variant: every read error is handled as a timeout
onReadErrorAsTimeout(last) ==
    IF last # <<>> THEN RetStatus(last[1]) ELSE RetError("timeout")

\* ReadMessage returned any other error
onReadError(last) == RetError("WebSocket read error")

\* variant: the connection is left open
deferCloseLeak(c) == c

\* defer conn.Close()
deferClose(c) == "closed"

\* variant: after a timeout without a status the loop waits again
EndStateRetry(r) == IF r.kind = "status" THEN "DONE" ELSE "StreamRead"

\* the state the resolution ends in when GetSubmissionStatus returns r
EndState(r) == IF r.kind = "status" THEN "DONE" ELSE "FAILED"

(***************************************************************************)
(* getStatusViaWebSocket: one iteration of the read loop in which          *)
(* ReadMessage returns a frame.                                            *)
(***************************************************************************)
ReadFrame(name) ==
    /\ pc = "StreamRead"
    /\ now < deadline
    /\ Len(frames) < MaxFrames
    /\ frames' = Append(frames, name)
    /\ lastRead' = "frame"
    /\ LET f == Frame(name)
           parsed == parseWebSocketMessage(f.doc)
           status == ForceID(parsed[1], submissionID)
       IN IF f.ft # "text"
          THEN /\ deadline' = skipDeadline(deadline, now)
               /\ UNCHANGED <<pc, lastStatus, conn, ret, normAt>>
          ELSE IF parsed = <<>>
          THEN /\ lastStatus' = onParseError(lastStatus)
               /\ deadline' = skipDeadline(deadline, now)
               /\ UNCHANGED <<pc, conn, ret, normAt>>
          ELSE /\ lastStatus' = UpdateLast(lastStatus, status)
               /\ IF exitOnFinal(status)
                  THEN /\ pc' = "DONE"
                       /\ ret' = RetStatus(status)
                       /\ conn' = deferClose(conn)
                       /\ deadline' = deadline
                       /\ normAt' = normAt
                  ELSE /\ deadline' = resetDeadline(deadline, now)
                       /\ normAt' = now
                       /\ UNCHANGED <<pc, ret, conn>>
    /\ UNCHANGED <<nvars, lvars, saved, reported, op, revision, config, submissionID, cand, lastError, restErr, resp, requests,
                   dials, now>>

(***************************************************************************)
(* getStatusViaWebSocket: ReadMessage returns a timeout error.             *)
(***************************************************************************)
ReadTimeout ==
    /\ pc = "StreamRead"
    /\ now >= deadline
    /\ lastRead' = "timeout"
    /\ ret' = onTimeout(lastStatus)
    /\ pc' = EndState(ret')
    /\ conn' = deferClose(conn)
    /\ UNCHANGED <<nvars, lvars, normAt, saved, reported, op, revision, config, submissionID, cand, lastError, restErr, resp, requests,
                   dials, now, deadline, lastStatus, frames>>

(***************************************************************************)
(* getStatusViaWebSocket: ReadMessage returns an error that is not a       *)
(* timeout.                                                                *)
(***************************************************************************)
ReadError ==
    /\ pc = "StreamRead"
    /\ lastRead' = "error"
    /\ ret' = onReadError(lastStatus)
    /\ pc' = EndState(ret')
    /\ conn' = deferClose(conn)
    /\ UNCHANGED <<nvars, lvars, normAt, saved, reported, op, revision, config, submissionID, cand, lastError, restErr, resp, requests,
                   dials, now, deadline, lastStatus, frames>>

(***************************************************************************)
(* The clock advances while ReadMessage is blocked.                        *)
(***************************************************************************)
Elapse ==
    /\ pc = "StreamRead"
    /\ now < deadline
    /\ now' = Min(now + TimeStep, deadline)
    /\ UNCHANGED <<nvars, lvars, normAt, saved, reported, op, revision, config, submissionID, pc, cand, lastError,
                   restErr, resp, requests, conn, dials, deadline, lastStatus, frames, lastRead, ret>>

Next ==
    \/ GetSubmissionStatus
    \/ ApiCall
    \/ \E outcome \in {"ok", "fail", "badarg"} : ApiRun(outcome)
    \/ \E outcome \in {"badid", "unavailable", "regular", "archive"} : GetContestInfo(outcome)
    \/ \E name \in ArchiveReplyNames : getArchiveContestSubmissions(name)
    \/ \E name \in ListReplyNames : getSubmissionsViaTasks(name)
    \/ \E name \in ReplyNames : tryRESTStatusViaIP(name)
    \/ \E name \in ReplyNames : tryRESTStatus(name)
    \/ \E ok \in BOOLEAN : Dial(ok)
    \/ \E name \in FrameNames : ReadFrame(name)
    \/ ReadTimeout
    \/ ReadError
    \/ Elapse

Spec == Init /\ [][Next]_vars

\* every HTTP request, the dial and every read are bounded by a timeout
\* (http.Client.Timeout, Dialer.HandshakeTimeout, SetReadDeadline), so some
\* step is always taken while the operation has not returned
SpecLive == Spec /\ WF_vars(Next)

TypeOK ==
    /\ pc \in {"START", "Running", "Archive", "Tasks", "RESTAttempt", "StreamConnect",
              "StreamRead", "DONE", "FAILED"}
    /\ conn \in {"none", "open", "closed"}
    /\ Len(lastStatus) <= 1
    /\ Len(frames) <= MaxFrames
    /\ ret.kind \in {"none", "status", "value", "error"}

(***************************************************************************)
(* The session: the auth and logout commands, the configuration file, and  *)
(* the start of a later process.  Of an API operation only the             *)
(* authentication check is followed.                                       *)
(***************************************************************************)
\* variant: user_id is not written
SaveConfigTokenOnly(c, old) == [old EXCEPT !.SessionToken = c.SessionToken]

\* SaveConfig: viper.Set of session_token and user_id, then WriteConfig
SaveConfig(c, old) == [SessionToken |-> c.SessionToken, UserID |-> c.UserID]

InitSession ==
    /\ NormIdle
    /\ ListIdle
    /\ limit = 0
    /\ op \in Operations
    /\ revision = "viaIP"
    /\ saved \in [SessionToken : {"", "tok"}, UserID : {"", "u1"}]
    /\ config = saved
    /\ reported = "none"
    /\ submissionID = "42"
    /\ pc = "START"
    /\ cand = 1
    /\ lastError = <<>>
    /\ restErr = <<>>
    /\ resp = "none"
    /\ requests = <<>>
    /\ conn = "none"
    /\ dials = 0
    /\ now = 0
    /\ deadline = 0
    /\ lastStatus = <<>>
    /\ frames = <<>>
    /\ lastRead = "none"
    /\ ret = NoRet
    /\ normAt = -1

\* the variables no command of the session touches
idle ==
    <<nvars, lvars, normAt, revision, submissionID, cand, lastError, restErr, resp,
      requests, conn, dials, now, deadline, lastStatus, frames, lastRead>>

\* createLogoutCommand; writeOK: viper.WriteConfig succeeded
Logout(writeOK) ==
    /\ pc = "START"
    /\ config' = [SessionToken |-> "", UserID |-> ""]
    /\ saved' = IF writeOK THEN SaveConfig(config', saved) ELSE saved
    /\ reported' = IF writeOK THEN "logout ok" ELSE "logout error"
    /\ UNCHANGED <<idle, op, pc, ret>>

\* createAuthCommand: the trimmed username is stored as UserID too
Auth(username, token, writeOK) ==
    /\ pc = "START"
    /\ config' = [SessionToken |-> token, UserID |-> username]
    /\ saved' = IF writeOK THEN SaveConfig(config', saved) ELSE saved
    /\ reported' = IF writeOK THEN "auth ok" ELSE "auth error"
    /\ UNCHANGED <<idle, op, pc, ret>>

\* a later process: NewVSCodeExtension reads the configuration file; when
\* LoadConfig fails it goes on with an empty Config
NewVSCodeExtension(loadOK) ==
    /\ pc # "START"
    /\ config' = IF loadOK THEN saved ELSE [SessionToken |-> "", UserID |-> ""]
    /\ reported' = "none"
    /\ op' \in Operations
    /\ pc' = "START"
    /\ ret' = NoRet
    /\ UNCHANGED <<idle, saved>>

NextSession ==
    \/ \E writeOK \in BOOLEAN : Logout(writeOK)
    \/ \E username \in {"", "u1"}, token \in {"", "tok"}, writeOK \in BOOLEAN :
            Auth(username, token, writeOK)
    \/ \E loadOK \in BOOLEAN : NewVSCodeExtension(loadOK)
    \/ GetSubmissionStatus
    \/ ApiCall

SpecSession == InitSession /\ [][NextSession]_vars

(***************************************************************************)
(* The normalizer and the classifier taken alone: parseWebSocketMessage is *)
(* applied to a document, isFinalStatus to a status token.                 *)
(***************************************************************************)
PointValues == {-5, 0, 1, 50, 99, 100, 150}

\* documents with the keys of SubmissionResult
CompiledDocs ==
    {Obj([compiled |-> c, total_points |-> JInt(p), subtasks |-> st,
          shown_verdict_text |-> JStr("verdict")],
         IF st.t = "arr" THEN <<JInt(12)>> ELSE <<>>,
         NoMembers) :
        c \in {JBool(TRUE), JBool(FALSE)}, p \in PointValues, st \in {Absent, JArr}}

\* the value under "data": absent, or an object with status and score
DataMaps ==
    {[tag |-> Absent, members |-> [status |-> Absent, score |-> Absent]]}
    \cup {[tag |-> JObj, members |-> [status |-> ds, score |-> dsc]] :
            ds \in {Absent, JStr("AC"), JInt(3)},
            dsc \in {Absent, JInt(87), JFloat(870), JFloat(875), JFloat(-15), JStr("87")}}

\* documents with the keys of WSMessage; mis is a "compiled" member that is
\* not a boolean, absent in a plain envelope
EnvelopeDocs ==
    {Obj([compiled |-> mis, status |-> st, score |-> sc, data |-> dt.tag],
         <<>>, dt.members) :
        mis \in {Absent, JStr("yes")},
        st \in {Absent, JStr("testing"), JStr("accepted")},
        sc \in {Absent, JInt(10)},
        dt \in DataMaps}

NormInputs ==
    CompiledDocs \cup EnvelopeDocs
        \cup {NonObject("invalid"), NonObject("null"), NonObject("other")}

Tokens ==
    {"accepted", "wrong_answer", "time_limit_exceeded", "memory_limit_exceeded",
     "compilation_error", "runtime_error", "AC", "WA", "TLE", "MLE", "CE", "RE",
     "", "pending", "in_queue", "testing", "running", "partial", "unknown",
     "Accepted", "ACCEPTED", "ac", "Wa", "wrong answer"}

InitNormalize ==
    /\ ndoc \in NormInputs
    /\ nout = <<>>
    /\ ndone = FALSE
    /\ ntoken \in Tokens
    /\ nfinal = FALSE
    /\ cdone = FALSE
    /\ ListIdle
    /\ limit = 0
    /\ op = "GetSubmissionStatus"
    /\ revision = "viaIP"
    /\ config = [SessionToken |-> "tok", UserID |-> "u1"]
    /\ saved = config
    /\ reported = "none"
    /\ submissionID = "42"
    /\ pc = "START"
    /\ cand = 1
    /\ lastError = <<>>
    /\ restErr = <<>>
    /\ resp = "none"
    /\ requests = <<>>
    /\ conn = "none"
    /\ dials = 0
    /\ now = 0
    /\ deadline = 0
    /\ lastStatus = <<>>
    /\ frames = <<>>
    /\ lastRead = "none"
    /\ ret = NoRet
    /\ normAt = -1

\* the variables of the resolution
rvars ==
    <<op, revision, config, submissionID, pc, cand, lastError, restErr, resp,
      requests, conn, dials, now, deadline, lastStatus, frames, lastRead, ret,
      normAt, saved, reported>>

Normalize ==
    /\ ~ndone
    /\ nout' = parseWebSocketMessage(ndoc)
    /\ ndone' = TRUE
    /\ UNCHANGED <<rvars, lvars, ndoc, ntoken, nfinal, cdone>>

Classify ==
    /\ ~cdone
    /\ nfinal' = isFinalStatus(ntoken)
    /\ cdone' = TRUE
    /\ UNCHANGED <<rvars, lvars, ndoc, nout, ndone, ntoken>>

NextNormalize == Normalize \/ Classify

SpecNormalize == InitNormalize /\ [][NextNormalize]_vars

(***************************************************************************)
(* Properties of the resolution.                                           *)
(***************************************************************************)
\* a reply is structurally valid: the transport succeeded, the status is
\* 200 and the body decodes into a SubmissionStatus
ValidReply(name) ==
    LET r == Reply(name)
    IN r.tr = "ok" /\ r.code = 200 /\ UnmarshalOK(r.body, SubmissionStatusSchema)

\* what the normalizer makes of a received frame (<<>>: nothing)
Normalized(name) ==
    IF Frame(name).ft = "text" THEN parseWebSocketMessage(Frame(name).doc) ELSE <<>>

\* the record without its id
NoID(status) == [status EXCEPT !.ID = ""]

\* index of the last frame that normalized successfully, 0 if none
LastGood(fs) ==
    LET good == {i \in 1..Len(fs) : Normalized(fs[i]) # <<>>}
    IN IF good = {} THEN 0 ELSE CHOOSE i \in good : \A j \in good : j <= i

\* C1: with credentials present the REST candidates come first, and the first
\* structurally valid reply is returned as DONE, final status or not: no
\* later candidate is requested and no WebSocket is ever dialled
C1_RestShortCircuit ==
    /\ [](dials > 0 => Len(requests) = Len(Endpoints(revision)))
    /\ []((resp # "none" /\ ValidReply(resp)) =>
            /\ pc = "DONE"
            /\ ret = RetStatus(DecodeStatus(Reply(resp).body))
            /\ Len(requests) = cand
            /\ dials = 0 /\ conn = "none" /\ frames = <<>>)
    /\ [][pc = "DONE" => UNCHANGED <<pc, ret, requests, dials, conn, frames>>]_vars

C1_Witness ==
    /\ pc = "DONE" /\ resp = "200full" /\ Len(requests) = 2
    /\ ret.status[1].Status = "testing" /\ dials = 0

\* C2: the first successfully normalized frame with a final status ends the
\* resolution: it is the last frame read, its record is what is returned,
\* and the connection is closed
C2_TerminalFrameEnds ==
    \A i \in 1..Len(frames) :
        (Normalized(frames[i]) # <<>> /\ isFinalStatus(Normalized(frames[i])[1].Status))
            => /\ i = Len(frames)
               /\ pc = "DONE"
               /\ NoID(ret.status[1]) = NoID(Normalized(frames[i])[1])
               /\ conn = "closed"

C2_Witness ==
    /\ pc = "DONE" /\ Len(frames) = 3
    /\ frames[2] = "wsTesting" /\ frames[3] = "compiled100"
    /\ ret.status[1].Status = "accepted"

\* C3: with the frames blob, {"status":"testing"}, {"status":"accepted",
\* "score":100} the "testing" frame does not end the resolution and the
\* engine returns {id:"42", status:"accepted", score:100}
C3_ScenarioReturnsAccepted ==
    /\ (frames = <<"blob", "envTesting">> /\ lastRead = "frame") =>
            /\ pc = "StreamRead"
            /\ lastStatus # <<>> /\ lastStatus[1].Status = "testing"
    /\ (frames = <<"blob", "envTesting", "envAccepted">> /\ lastRead = "frame") =>
            /\ pc = "DONE"
            /\ ret = RetStatus([ID |-> "42", Status |-> "accepted", Result |-> "",
                                Score |-> 100, Time |-> "", Memory |-> ""])

C5_TimeoutWithoutStatusFails ==
    (lastRead = "timeout" /\ LastGood(frames) = 0) =>
        /\ pc = "FAILED"
        /\ ret = RetError("timeout")
        /\ now = InitialDeadline

C5_Witness ==
    /\ lastRead = "timeout" /\ frames = <<>> /\ pc = "FAILED" /\ now = 60

\* C6: a frame that fails normalization is skipped: the loop goes on,
\* lastStatus keeps its value, and the parse error is never what the
\* resolution returns
C6_BadFrameSkipped ==
    /\ [][(frames' # frames /\ Frame(frames'[Len(frames')]).ft = "text"
              /\ Normalized(frames'[Len(frames')]) = <<>>)
            => (lastStatus' = lastStatus /\ pc' = "StreamRead" /\ ret' = NoRet
                  /\ conn' = "open")]_vars
    /\ []((op = "GetSubmissionStatus" /\ ret.kind = "error") =>
            ret.err \in {"not authenticated", "WebSocket connection failed",
                         "timeout", "WebSocket read error"})

C6_Witness ==
    /\ frames = <<"wsTesting", "blob">> /\ pc = "StreamRead"
    /\ lastStatus # <<>> /\ lastStatus[1].Status = "testing"

\* C7: when the dial fails after every REST candidate failed, the
\* resolution is FAILED with the connection error: nothing is read, nothing
\* is dialled again, no record is returned
C7_DialFailureFatal ==
    (dials > 0 /\ conn = "none") =>
        /\ pc = "FAILED"
        /\ ret = RetError("WebSocket connection failed")
        /\ dials = 1
        /\ frames = <<>> /\ lastRead = "none"
        /\ Len(requests) = Len(Endpoints(revision))

C7_Witness ==
    pc = "FAILED" /\ dials = 1 /\ conn = "none" /\ ret.err = "WebSocket connection failed"

\* C8: a read error that is not a timeout ends in FAILED with an error even
\* when a status is already known; the stream is not dialled again
C8_ReadErrorFatal ==
    lastRead = "error" =>
        /\ pc = "FAILED"
        /\ ret.kind = "error" /\ ret.status = <<>>
        /\ dials = 1 /\ conn = "closed"

C8_Witness ==
    /\ lastRead = "error" /\ lastStatus # <<>> /\ lastStatus[1].Status = "partial"
    /\ pc = "FAILED"

\* C9: lastStatus is always the normalization of the most recent frame that
\* normalized successfully, and nil when none did
C9_LastKnownMostRecent ==
    IF LastGood(frames) = 0
    THEN lastStatus = <<>>
    ELSE /\ lastStatus # <<>>
         /\ NoID(lastStatus[1]) = NoID(Normalized(frames[LastGood(frames)])[1])

C9_Witness ==
    /\ frames = <<"wsTesting", "compiledPartial", "blob">>
    /\ lastStatus # <<>> /\ lastStatus[1].Status = "partial"

\* C10: every record the stream path keeps in lastStatus or returns carries
\* the submission id of the call, whatever id the normalizer produced
C10_IdForced ==
    /\ lastStatus # <<>> => lastStatus[1].ID = submissionID
    /\ (dials > 0 /\ ret.kind = "status") => ret.status[1].ID = submissionID

C10_Witness ==
    /\ pc = "DONE" /\ frames # <<>> /\ frames[Len(frames)] = "wsData"
    /\ Normalized("wsData")[1].ID = "7"
    /\ ret.status[1].ID = "42" /\ lastStatus[1].ID = "42"

\* the credential is missing: session token or user id empty
CredentialMissing == config.SessionToken = "" \/ config.UserID = ""

\* C11: every SubmissionStatus that GetSubmissionStatus returns has a
\* non-empty id, backfilled from the requested id when the reply has none
C11_ReturnedIdNonEmpty ==
    (op = "GetSubmissionStatus" /\ ret.kind = "status") =>
        /\ ret.status[1].ID # ""
        /\ (dials = 0 /\ Reply(resp).body.top["id"].t # "str")
              => ret.status[1].ID = submissionID

\* C12: without a credential every operation fails at once with "not
\* authenticated": no HTTP request is issued, no WebSocket is dialled
C12_NoCredentialNoNetwork ==
    CredentialMissing =>
        /\ requests = <<>> /\ dials = 0 /\ conn = "none"
        /\ pc \in {"START", "FAILED"}
        /\ pc = "FAILED" => ret = RetError("not authenticated")

C12_Witness ==
    /\ op = "SubmitSolution" /\ config.SessionToken = "tok" /\ config.UserID = ""
    /\ pc = "FAILED" /\ ret.err = "not authenticated" /\ requests = <<>>

\* the dial failed / the read timed out before any frame was normalized
DialFailed == dials > 0 /\ conn = "none"
TimeoutNoStatus == lastRead = "timeout" /\ LastGood(frames) = 0
Resolved == op = "GetSubmissionStatus" /\ ~CredentialMissing /\ pc \in {"DONE", "FAILED"}

\* C13 as stated: an authenticated resolution ends with an error only when
\* the dial fails or the read times out with no status; otherwise it
\* returns a SubmissionStatus
C13_OnlyTwoErrors ==
    Resolved =>
        IF DialFailed \/ TimeoutNoStatus
        THEN ret.kind = "error"
        ELSE ret.kind = "status"

\* C13 amended: a read error that is not a timeout is the third situation
C13_ThreeErrors ==
    Resolved =>
        IF DialFailed \/ TimeoutNoStatus \/ lastRead = "error"
        THEN ret.kind = "error"
        ELSE ret.kind = "status"

C13_Witness ==
    /\ Resolved /\ lastRead = "error" /\ frames = <<"blob">>
    /\ ret = RetError("WebSocket read error")

\* C14: isFinalStatus is true for exactly the twelve tokens and false for
\* every other string, the empty one and the case variants included
C14_TwelveTokens ==
    cdone =>
        (nfinal <=> ntoken \in {"accepted", "wrong_answer", "time_limit_exceeded",
                                "memory_limit_exceeded", "compilation_error",
                                "runtime_error", "AC", "WA", "TLE", "MLE", "CE", "RE"})

C14_Witness == cdone /\ ntoken = "RE" /\ nfinal

\* the document has the compiled-result shape / is a generic envelope
\* (an object with WSMessage members and none of SubmissionResult)
CompiledShape(doc) ==
    /\ doc.syn = "object"
    /\ doc.top["compiled"].t \in {"true", "false"}
    /\ doc.top["total_points"].t = "int"
EnvelopeShape(doc) ==
    /\ doc.syn = "object"
    /\ \A k \in DOMAIN SubmissionResultSchema : doc.top[k].t = "absent"
    /\ \E k \in DOMAIN WSMessageSchema : doc.top[k].t # "absent"
    /\ \A k \in {"status", "result", "time", "memory", "type"} :
            doc.top[k].t \in {"absent", "str"}
    /\ doc.top["score"].t \in {"absent", "int"}

\* C15: for a compiled-result message the status is compilation_error when
\* compiled is false, whatever the points, and otherwise accepted for 100
\* points, partial for 1..99, wrong_answer for 0
C15_CompiledStatusRule ==
    (ndone /\ CompiledShape(ndoc)) =>
        /\ nout # <<>>
        /\ LET points == ndoc.top["total_points"].n
               st == nout[1].Status
           IN /\ ndoc.top["compiled"].t = "false" => st = "compilation_error"
              /\ (ndoc.top["compiled"].t = "true" /\ points = 100) => st = "accepted"
              /\ (ndoc.top["compiled"].t = "true" /\ points > 0 /\ points < 100)
                    => st = "partial"
              /\ (ndoc.top["compiled"].t = "true" /\ points = 0) => st = "wrong_answer"

C15_Witness ==
    /\ ndone /\ ndoc.top["compiled"].t = "false" /\ ndoc.top["total_points"].n = 100
    /\ nout # <<>> /\ nout[1].Status = "compilation_error"

\* the string under key k of the data map when it is there, else the
\* top-level one
DataOrTop(doc, k) ==
    IF doc.top["data"].t = "obj" /\ doc.data[k].t = "str"
    THEN doc.data[k].s
    ELSE StrField(doc.top[k])

\* C16: for a generic envelope the status, result, time and memory of the
\* record are the data map's values where it has the key and the top-level
\* values otherwise
C16_EnvelopeFields ==
    (ndone /\ EnvelopeShape(ndoc)
        /\ \A k \in DataKeys : ndoc.data[k].t \in {"absent", "str"}) =>
        /\ nout # <<>>
        /\ nout[1].Status = DataOrTop(ndoc, "status")
        /\ nout[1].Result = DataOrTop(ndoc, "result")
        /\ nout[1].Time = DataOrTop(ndoc, "time")
        /\ nout[1].Memory = DataOrTop(ndoc, "memory")

\* C17: for a generic envelope with a data map a numeric data.score,
\* truncated, is the score, and any other data.score leaves the top-level
\* score (0 when there is none)
C17_DataScoreTruncated ==
    (ndone /\ EnvelopeShape(ndoc) /\ ndoc.top["data"].t = "obj") =>
        /\ nout # <<>>
        /\ LET sc == ndoc.data["score"]
           IN nout[1].Score =
                IF sc.t = "int" THEN sc.n
                ELSE IF sc.t = "float"
                     THEN (IF sc.n >= 0 THEN sc.n \div 10 ELSE -((-sc.n) \div 10))
                ELSE IF ndoc.top["score"].t = "int" THEN ndoc.top["score"].n
                ELSE 0

\* C18: the score of every record that GetSubmissionStatus returns is not
\* negative
C18_ScoreNotNegative ==
    (op = "GetSubmissionStatus" /\ ret.kind = "status") => ret.status[1].Score >= 0

FourEndpoints == <<"/submission/", "/submissions/", "/api/submission/", "/api/submissions/">>

C20_LastErrorReturned ==
    (op = "GetSubmissionStatus" /\ pc = "StreamConnect")
        => restErr = tryGetStatusErr(Reply(resp))

\* C20 amended: tryRESTStatus returns the error of the last candidate;
\* tryRESTStatusViaIP returns one fixed error
C20_LastErrorOrFixed ==
    (op = "GetSubmissionStatus" /\ pc = "StreamConnect")
        => /\ restErr # <<>>
           /\ revision = "rest" => restErr = tryGetStatusErr(Reply(resp))
           /\ revision = "viaIP" => restErr = <<"REST status unavailable">>

C20_Witness ==
    /\ revision = "rest" /\ pc = "StreamConnect" /\ resp = "429"
    /\ restErr = <<"status 429">> /\ Len(requests) = 4

ListingOp == op = "GetContestSubmissions"
StatusOp == op = "GetSubmissionStatus"
LastOf(sq) == sq[Len(sq)]
SeqRange(sq) == {sq[i] : i \in 1..Len(sq)}

RECURSIVE Collected(_)
Collected(lr) ==
    IF lr = <<>> THEN <<>>
    ELSE Collected(SubSeq(lr, 1, Len(lr) - 1))
            \o (IF LastOf(lr) = "200list" THEN <<Len(lr), Len(lr) + 10>> ELSE <<>>)

\* sq is the lim largest members of supplied (all of them when lim is 0),
\* largest first
IsTop(sq, supplied, lim) ==
    /\ SeqRange(sq) \subseteq supplied
    /\ Len(sq) = Cardinality(SeqRange(sq))
    /\ Len(sq) = (IF lim > 0 /\ lim < Cardinality(supplied)
                  THEN lim ELSE Cardinality(supplied))
    /\ \A i \in 1..Len(sq) - 1 : sq[i] > sq[i + 1]
    /\ \A x \in SeqRange(sq) : \A y \in supplied \ SeqRange(sq) : x > y

Supplied ==
    IF lreplies = <<>> THEN SeqRange(ArchiveReply(aresp).subs)
    ELSE SeqRange(Collected(lreplies))

\* C23: with a limit N > 0 GetContestSubmissions returns the N submissions
\* with the largest ids, largest first, for regular and archive contests
C23_LimitApplied ==
    (ListingOp /\ pc = "DONE" /\ limit > 0) => IsTop(result, Supplied, limit)

\* the same for the contests that are listed task by task
C23_LimitAppliedByTasks ==
    (ListingOp /\ pc = "DONE" /\ limit > 0 /\ lreplies # <<>>)
        => IsTop(result, Supplied, limit)

\* the stream is connected when the clock shows 0: the clock of the model
\* advances only while ReadMessage is blocked
StreamReturned == StatusOp /\ conn = "closed"

C25_RollingDeadline ==
    (StatusOp /\ conn # "none") =>
        /\ deadline = (IF normAt < 0 THEN InitialDeadline ELSE normAt + NextDeadline)
        /\ (normAt >= 0) =>
              (LastGood(frames) > 0 /\ ~(lastStatus[1].Status \in finalStatuses
                                            /\ pc = "StreamRead"))
        /\ (normAt < 0 /\ pc = "StreamRead") => LastGood(frames) = 0
        /\ lastRead = "timeout" => now = deadline
        /\ pc = "StreamRead" => now <= deadline

C25_Witness ==
    /\ StatusOp /\ pc = "StreamRead" /\ frames = <<"blob", "compiledPartial">>
    /\ normAt = TimeStep /\ deadline = TimeStep + NextDeadline

\* the frame read last was not text, or failed normalization
LastSkipped == frames # <<>> /\ lastRead = "frame" /\ Normalized(LastOf(frames)) = <<>>

\* C26: a frame that is not text or fails normalization leaves the deadline
\* as it was, and a stream of only such frames ends with the timeout error
\* 60 units after the connection
C26_SkippedFramesKeepDeadline ==
    /\ [][(StatusOp /\ LastSkipped') => (deadline' = deadline /\ pc' = "StreamRead")]_vars
    /\ []((StatusOp /\ lastRead = "timeout" /\ LastGood(frames) = 0)
            => (ret = RetError("timeout") /\ now = InitialDeadline))

C26_Witness ==
    /\ StatusOp /\ lastRead = "timeout" /\ frames = <<"binary", "blob", "badTypes">>
    /\ now = InitialDeadline /\ ret.kind = "error"

\* C27: a compiled-result frame with compiled = true and 0 < points < 100
\* becomes "partial", does not end the resolution, and a partial record is
\* returned by the stream only through the timeout exit, as the last status
C27_PartialNotTerminal ==
    /\ (StatusOp /\ frames # <<>> /\ lastRead = "frame"
            /\ LastOf(frames) = "compiledPartial")
          => /\ pc = "StreamRead"
             /\ ret = NoRet
             /\ lastStatus # <<>> /\ lastStatus[1].Status = "partial"
             /\ lastStatus[1].Score = 50
    /\ (StatusOp /\ dials > 0 /\ ret.kind = "status" /\ ret.status[1].Status = "partial")
          => /\ lastRead = "timeout"
             /\ frames[LastGood(frames)] = "compiledPartial"

C27_Witness ==
    /\ StatusOp /\ pc = "DONE" /\ frames = <<"compiledPartial", "blob">>
    /\ lastRead = "timeout" /\ ret.status[1].Status = "partial"

Returned == pc \in {"DONE", "FAILED"}

\* C28: every operation eventually returns (DONE or FAILED), and once it has
\* returned nothing changes any more: no request, no dial, no read
C28_Terminates ==
    /\ <>Returned
    /\ [][Returned => UNCHANGED vars]_vars

C28_Witness ==
    /\ StatusOp /\ pc = "DONE" /\ lastRead = "timeout" /\ Len(frames) = MaxFrames
    /\ now > InitialDeadline

\* C29: at most one WebSocket is dialled, and only after every REST
\* candidate was requested and failed; no REST request is made once the
\* stream has been dialled; the connection is open exactly while the read
\* loop runs and closed when GetSubmissionStatus has returned
C29_OneStreamSession ==
    /\ [](dials <= 1)
    /\ []((StatusOp /\ (dials > 0 \/ pc = "StreamConnect"))
            => Len(requests) = (IF revision = "rest" THEN 4 ELSE 3))
    /\ []((StatusOp /\ pc = "StreamConnect") => ~ValidReply(resp))
    /\ [](conn = "open" <=> pc = "StreamRead")
    /\ []((Returned /\ conn # "none") => conn = "closed")
    /\ [][(StatusOp /\ requests' # requests)
            => (dials = 0 /\ conn = "none" /\ pc = "RESTAttempt"
                /\ (resp # "none" => ~ValidReply(resp)))]_vars
    /\ [][dials' # dials => (pc = "StreamConnect" /\ dials' = 1)]_vars

C29_Witness ==
    /\ StatusOp /\ revision = "viaIP" /\ pc = "FAILED" /\ conn = "closed" /\ dials = 1
    /\ Len(requests) = 3 /\ lastRead = "error" /\ frames # <<>>

Unauthenticated(c) == c.SessionToken = "" \/ c.UserID = ""

\* C30: after logout the token and the user id in memory are empty and every
\* API operation of the process is refused with "not authenticated", until
\* auth stores a non-empty username and token; when logout reported success
\* the configuration file holds an empty token and user id, and the next
\* process starts unauthenticated
C30_LogoutClearsSession ==
    /\ [](reported \in {"logout ok", "logout error"}
            => /\ config = [SessionToken |-> "", UserID |-> ""]
               /\ requests = <<>>
               /\ pc \in {"START", "FAILED"}
               /\ pc = "FAILED" => ret = RetError("not authenticated"))
    /\ [](reported = "logout ok" => saved = [SessionToken |-> "", UserID |-> ""])
    /\ [][(reported = "logout ok" /\ reported' = "none")
            => (Unauthenticated(config') /\ pc' = "START")]_vars
    /\ [](reported \in {"auth ok", "auth error"}
            => /\ pc = "FAILED" => (Unauthenticated(config)
                                        /\ ret = RetError("not authenticated"))
               /\ pc \in {"RESTAttempt", "Running"} => ~Unauthenticated(config))
    /\ [][(reported \in {"logout ok", "logout error"} /\ ~Unauthenticated(config'))
            => (reported' \in {"auth ok", "auth error"} \/ reported' = "none")]_vars

C30_Witness ==
    /\ reported = "logout ok" /\ pc = "FAILED" /\ ret = RetError("not authenticated")
    /\ saved.SessionToken = "" /\ saved.UserID = "" /\ op = "GetSubmissionStatus"

====
